---- MODULE Spec2Model ----
(***************************************************************************)
(* goemon-cli: the Task model (src/goemon/api.py), the V1API client that   *)
(* fetches and patches it, and the CLI session (src/goemon/cli.py).        *)
(*                                                                         *)
(* Python dicts are functions over the set of keys they hold.  YAML/JSON   *)
(* scalars are their tokens (strings); the kind a token resolves to is     *)
(* given by IsStr / IsBool / IsInt, as yaml.SafeLoader resolves it.        *)
(***************************************************************************)
EXTENDS Integers, Sequences, FiniteSets, TLC

(* ------------------------------ bounds -------------------------------- *)
MaxCalls == 2      \* setter calls made on one Task
MaxPatches == 2    \* patch_task calls made with one Task

(* ------------------------------ dicts --------------------------------- *)
EmptyDict == [k \in {} |-> ""]
Has(d, k) == k \in DOMAIN d
Get(d, k, default) == IF k \in DOMAIN d THEN d[k] ELSE default
Put(d, k, v) == [x \in (DOMAIN d) \cup {k} |-> IF x = k THEN v ELSE d[x]]
Update(d, e) == [x \in (DOMAIN d) \cup (DOMAIN e) |-> IF x \in DOMAIN e THEN e[x] ELSE d[x]]

(* --------------------------- YAML scalars ----------------------------- *)
BoolTokens == {"true", "false"}
IntTokens == {"0", "1", "10", "20", "99", "1000", "2000"}
IsBool(v) == v \in BoolTokens
\* Python: bool is a subclass of int, so isinstance(True, int) holds
IsInt(v) == v \in IntTokens \cup BoolTokens
IsStr(v) == v \notin IntTokens \cup BoolTokens

\* a parsed YAML document: null, a list of mappings, or a bare scalar
YamlNull == [kind |-> "null", items |-> <<>>]
YamlList(s) == [kind |-> "list", items |-> s]
YamlScalar == [kind |-> "scalar", items |-> <<>>]
YamlMap(m) == [kind |-> "map", items |-> <<>>, map |-> m]

(* ----------------------------- api.py --------------------------------- *)
PROPERTIES == <<"meta", "description", "script", "param", "paramschema">>
META_BOOLEAN_PROPERTIES == <<"public", "importable", "distributable">>
META_STRING_OR_NONE_PROPERTIES == <<"creatorLogType", "authorLogType">>
META_STRING_OR_EMPTY_PROPERTIES == <<"title">>

Range(s) == {s[i] : i \in DOMAIN s}

\* Task.meta (setter): every sub-key is re-derived and marked changed
MetaDefault(key) ==
    IF key \in Range(META_BOOLEAN_PROPERTIES) THEN "false"
    ELSE IF key \in Range(META_STRING_OR_NONE_PROPERTIES) THEN "none"
    ELSE ""
MetaKeys ==
    Range(META_BOOLEAN_PROPERTIES) \cup Range(META_STRING_OR_NONE_PROPERTIES)
        \cup Range(META_STRING_OR_EMPTY_PROPERTIES)
\* value: a parsed document; a document that is no mapping has no .get and raises
SetMeta(o, ch, value) ==
    IF value.kind # "map"
    THEN [raised |-> TRUE, obj |-> o, changed |-> ch]
    ELSE [raised |-> FALSE,
          obj |-> [k \in (DOMAIN o) \cup MetaKeys |->
                     IF k \in MetaKeys THEN Get(value.map, k, MetaDefault(k)) ELSE o[k]],
          changed |-> ch \cup MetaKeys]

\* Task.description / Task.script (setters)
SetDescription(o, ch, value) ==
    [raised |-> FALSE, obj |-> Put(o, "description", value), changed |-> ch \cup {"description"}]
SetScript(o, ch, value) ==
    [raised |-> FALSE, obj |-> Put(o, "script", value), changed |-> ch \cup {"script"}]

\* Task._validate_param_field: TRUE when no error is raised
ValidateParamField(elem) ==
    /\ Has(elem, "name")
    /\ IsStr(elem["name"])
    /\ Has(elem, "value")
    /\ IsStr(elem["value"])

\* Task._validate_param
ValidateParam(param) ==
    IF param.kind = "null" THEN TRUE
    ELSE IF param.kind # "list" THEN FALSE
    ELSE \A i \in DOMAIN param.items : ValidateParamField(param.items[i])

\* Task.param (setter)
SetParam(o, ch, value) ==
    IF ~ValidateParam(value)
    THEN [raised |-> TRUE, obj |-> o, changed |-> ch]
    ELSE [raised |-> FALSE, obj |-> Put(o, "param", value), changed |-> ch \cup {"param"}]

ParamschemaTypes == {"string", "integer", "number", "file", "boolean", "url"}

\* Task._validate_paramschema_field
ValidateParamschemaField(elem) ==
    /\ Has(elem, "name")
    /\ IsStr(elem["name"])
    /\ Has(elem, "type")
    /\ elem["type"] \in ParamschemaTypes

\* Task._validate_paramschema
ValidateParamschema(paramschema) ==
    IF paramschema.kind = "null" THEN TRUE
    ELSE IF paramschema.kind # "list" THEN FALSE
    ELSE \A i \in DOMAIN paramschema.items : ValidateParamschemaField(paramschema.items[i])

\* Task.paramschema (setter)
SetParamschema(o, ch, value) ==
    IF ~ValidateParamschema(value)
    THEN [raised |-> TRUE, obj |-> o, changed |-> ch]
    ELSE [raised |-> FALSE, obj |-> Put(o, "paramschema", value),
          changed |-> ch \cup {"paramschema"}]

\* Task._validate_file
ValidateFile(file) ==
    /\ Has(file, "name")
    /\ IsStr(file["name"])
    /\ Has(file, "type")
    /\ IsStr(file["type"])
    /\ Has(file, "importType")
    /\ IsStr(file["importType"])
    /\ Has(file, "preload")
    /\ IsBool(file["preload"])
    /\ Has(file, "priority")
    /\ IsInt(file["priority"])

(* ------------------------- files on the disk -------------------------- *)
\* a local file is its bytes (a content id) and its mtime in seconds; 0 = no file
NoFile == [bytes |-> 0, mtime |-> 0]
\* hashlib.sha256(bytes).hexdigest(): one digest per content
Sha256(bytes) == IF bytes = 1 THEN "H1" ELSE IF bytes = 2 THEN "H2" ELSE "H3"
\* os.path.getsize
GetSize(f) == IF f.bytes = 1 THEN "10" ELSE "20"
\* int(os.path.getmtime(filepath) * 1000)
LastModified(f) == IF f.mtime = 1 THEN "1000" ELSE "2000"

\* a file entry of the task: {'type': 'files', 'data': {'attributes': attr}}, and
\* 'links' on the entries the server returned
Entry(attr) == [type |-> "files", data |-> [attributes |-> attr]]
Attr(entry) == entry["data"]["attributes"]
WithAttr(entry, attr) == Put(entry, "data", [attributes |-> attr])

\* [.. for d, f in files_path if f == name][0]: the first path of that name,
\* <<>> when there is none (IndexError)
RECURSIVE FirstPath(_, _)
FirstPath(files_path, name) ==
    IF files_path = <<>> THEN <<>>
    ELSE IF Head(files_path)[2] = name THEN Head(files_path)
    ELSE FirstPath(Tail(files_path), name)

\* [f for f in oldfiles if name and hashSHA256 match]
RECURSIVE OldfilesMatched(_, _, _)
OldfilesMatched(oldfiles, name, hash) ==
    IF oldfiles = <<>> THEN <<>>
    ELSE LET f == Head(oldfiles)
             rest == OldfilesMatched(Tail(oldfiles), name, hash)
         IN IF Attr(f)["name"] = name /\ Attr(f)["hashSHA256"] = hash
            THEN <<f>> \o rest ELSE rest

\* the branch of the loop body taken when a previous entry matches
ReuseFile(oldfile, file) == WithAttr(oldfile, Update(Attr(oldfile), file))

\* the branch of the loop body taken when none matches
NewFile(file, hash, localfile) ==
    Entry(Update([hashSHA256 |-> hash, size |-> GetSize(localfile),
                  lastModified |-> LastModified(localfile)], file))

\* Task.files (setter), the loop over the descriptors
RECURSIVE FilesLoop(_, _, _, _, _, _)
FilesLoop(oldfiles, descs, files_path, disk, newfiles, newdata_files) ==
    IF descs = <<>>
    THEN [raised |-> FALSE, files |-> newfiles, files_data |-> newdata_files]
    ELSE LET file == Head(descs)
             failed == [raised |-> TRUE, files |-> newfiles, files_data |-> newdata_files]
         IN IF ~ValidateFile(file) THEN failed
            ELSE LET filepath == FirstPath(files_path, file["name"])
                 IN IF filepath = <<>> THEN failed
                    ELSE IF disk[filepath] = NoFile THEN failed
                    ELSE LET hash == Sha256(disk[filepath].bytes)
                             matched == OldfilesMatched(oldfiles, file["name"], hash)
                         IN IF Len(matched) > 0
                            THEN FilesLoop(oldfiles, Tail(descs), files_path, disk,
                                           Append(newfiles, ReuseFile(matched[1], file)),
                                           newdata_files)
                            ELSE FilesLoop(oldfiles, Tail(descs), files_path, disk,
                                           Append(newfiles, NewFile(file, hash, disk[filepath])),
                                           Append(newdata_files,
                                                  <<file["name"], hash, filepath>>))

\* the loop of the files setter over a parsed files_yaml; a document that is no
\* list cannot be iterated and raises
FilesOf(oldfiles, files_yaml, files_path, disk) ==
    IF files_yaml.kind # "list"
    THEN [raised |-> TRUE, files |-> <<>>, files_data |-> <<>>]
    ELSE FilesLoop(oldfiles, files_yaml.items, files_path, disk, <<>>, <<>>)

\* (mutant) the fileset is rebuilt in place, so a descriptor that raises leaves
\* the entries built before it
SetFilesInPlace(o, ch, files_yaml, files_path, disk) ==
    LET r == FilesOf(Get(o, "files", <<>>), files_yaml, files_path, disk)
    IN [raised |-> r.raised,
        obj |-> Put(Put(o, "files", r.files), "files_data", r.files_data),
        changed |-> IF r.raised THEN ch ELSE ch \cup {"files"}]

\* (mutant) the previous entries whose name no descriptor has are kept
SetFilesKeepOld(o, ch, files_yaml, files_path, disk) ==
    LET oldfiles == Get(o, "files", <<>>)
        r == FilesOf(oldfiles, files_yaml, files_path, disk)
        named == {Attr(r.files[i])["name"] : i \in DOMAIN r.files}
        kept == SelectSeq(oldfiles, LAMBDA f : Attr(f)["name"] \notin named)
    IN IF r.raised
       THEN [raised |-> TRUE, obj |-> o, changed |-> ch]
       ELSE [raised |-> FALSE,
             obj |-> Put(Put(o, "files", r.files \o kept), "files_data", r.files_data),
             changed |-> ch \cup {"files"}]

\* Task.files (setter); value = (files_yaml, files_path), files_yaml parsed
SetFiles(o, ch, files_yaml, files_path, disk) ==
    LET oldfiles == Get(o, "files", <<>>)
        r == FilesOf(oldfiles, files_yaml, files_path, disk)
    IN IF r.raised
       THEN [raised |-> TRUE, obj |-> o, changed |-> ch]
       ELSE [raised |-> FALSE,
             obj |-> Put(Put(o, "files", r.files), "files_data", r.files_data),
             changed |-> ch \cup {"files"}]

\* the properties serialize_as_task goes through ('meta' is skipped)
AllProperties ==
    (Range(PROPERTIES) \cup {"files"} \cup MetaKeys) \ {"meta"}

\* (mutant) every property the task holds is emitted
SerializeEverything(o, ch) == [prop \in {p \in AllProperties : p \in DOMAIN o} |-> o[prop]]

\* Task.serialize_as_task
SerializeAsTask(o, ch) == [prop \in {p \in AllProperties : p \in ch} |-> o[prop]]

\* Task.get_data_files
GetDataFiles(o) == IF ~Has(o, "files_data") THEN <<>> ELSE o["files_data"]

(* -------------------------- the remote side --------------------------- *)
\* the links the server gives a file entry: its download and upload locations
Links(name, hash) == [download |-> <<"download", name, hash>>,
                      upload |-> <<"upload", name, hash>>]

\* what a PATCH answered with a success status does to the task's attributes:
\* the keys of the patch replace the server's, and every file entry of the
\* patch comes back with the links of its (name, hashSHA256)
ServerFiles(files) ==
    [i \in DOMAIN files |->
        Put(files[i], "links", Links(Attr(files[i])["name"], Attr(files[i])["hashSHA256"]))]
ServerApply(attributes, data) ==
    Update(attributes,
           IF Has(data, "files") THEN Put(data, "files", ServerFiles(data["files"])) ELSE data)

\* the faults a patch_task call can meet: none, a non-success PATCH status,
\* a failed k-th PUT, a failed k-th download of the returned Task
Faults == {"none", "patch", "put1", "put2", "get1", "get2"}
PutFault(k) == IF k = 1 THEN "put1" ELSE IF k = 2 THEN "put2" ELSE "put3"
GetFault(k) == IF k = 1 THEN "get1" ELSE IF k = 2 THEN "get2" ELSE "get3"

\* [file for file in respjson[..]['files'] if hashSHA256 == hash and name == filename]
RespMatched(respfiles, filename, hash) == OldfilesMatched(respfiles, filename, hash)

\* V1API._patch, the loop over data_files; k counts the PUTs sent so far
RECURSIVE UploadLoop(_, _, _, _, _)
UploadLoop(respfiles, data_files, fault, k, sent) ==
    IF data_files = <<>> THEN [raised |-> FALSE, sent |-> sent]
    ELSE LET filename == Head(data_files)[1]
             hash == Head(data_files)[2]
             files == RespMatched(respfiles, filename, hash)
         IN IF Len(files) = 0 THEN [raised |-> TRUE, sent |-> sent]
            ELSE LET url == files[1]["links"]["upload"]
                 IN IF fault = PutFault(k + 1)
                    THEN [raised |-> TRUE,
                          sent |-> Append(sent, <<"PUT", url[2], url[3], "failed">>)]
                    ELSE UploadLoop(respfiles, Tail(data_files), fault, k + 1,
                                    Append(sent, <<"PUT", url[2], url[3], "ok">>))

\* Task._download_files, the loop: the GETs sent, and whether one failed
RECURSIVE DownloadLoop(_, _, _, _)
DownloadLoop(files, fault, k, sent) ==
    IF files = <<>> THEN [raised |-> FALSE, sent |-> sent]
    ELSE LET url == files[1]["links"]["download"]
         IN IF fault = GetFault(k + 1)
            THEN [raised |-> TRUE, sent |-> Append(sent, <<"GET", url[2], url[3], "failed">>)]
            ELSE DownloadLoop(Tail(files), fault, k + 1,
                              Append(sent, <<"GET", url[2], url[3], "ok">>))

\* Task.__init__ / Task._download_files: mkdir says whether a scratch directory
\* was made (it stays on the disk when a download raises)
NewTask(attributes, fault) ==
    LET files == Get(attributes, "files", <<>>)
    IN IF Len(files) = 0
       THEN [raised |-> FALSE, mkdir |-> FALSE, sent |-> <<>>]
       ELSE LET d == DownloadLoop(files, fault, 0, <<>>)
            IN [raised |-> d.raised, mkdir |-> TRUE, sent |-> d.sent]

\* V1API.patch_task with V1API._patch, against the server state `attributes`
PatchTask(o, ch, attributes, fault) ==
    LET data == SerializeAsTask(o, ch)
        data_files == GetDataFiles(o)
    IN IF fault = "patch"
       THEN [raised |-> TRUE, remote |-> attributes,
             sent |-> <<<<"PATCH", "", "", "failed">>>>, mkdir |-> FALSE, data |-> data]
       ELSE LET respjson == ServerApply(attributes, data)
                up == UploadLoop(Get(respjson, "files", <<>>), data_files, fault, 0,
                                 <<<<"PATCH", "", "", "ok">>>>)
            IN IF up.raised
               THEN [raised |-> TRUE, remote |-> respjson, sent |-> up.sent, mkdir |-> FALSE,
                     data |-> data]
               ELSE LET t == NewTask(respjson, fault)
                    IN [raised |-> t.raised, remote |-> respjson, sent |-> up.sent \o t.sent,
                        mkdir |-> t.mkdir, data |-> data]

(* ------------------------------ inputs -------------------------------- *)
SrcDir == "src"
PathA == <<SrcDir, "a">>
PathB == <<SrcDir, "b">>
File1 == [bytes |-> 1, mtime |-> 2]
File2 == [bytes |-> 2, mtime |-> 2]
MkDisk(fa, fb) == [p \in {PathA, PathB} |-> IF p = PathA THEN fa ELSE fb]

\* local directories handed to the files setter: files_path and the files behind it
LocalDir(files_path, disk) == [files_path |-> files_path, disk |-> disk]
DirSame == LocalDir(<<PathA, PathB>>, MkDisk(File1, File2))
DirSwapped == LocalDir(<<PathA, PathB>>, MkDisk(File2, File1))
DirNoFileB == LocalDir(<<PathA, PathB>>, MkDisk(File1, NoFile))
DirNoPathB == LocalDir(<<PathA>>, MkDisk(File2, File2))

Desc(name, priority) ==
    [name |-> name, type |-> "text", importType |-> "file", preload |-> "true",
     priority |-> priority]
\* a descriptor that carries more keys than the five validated ones
DescExtra == Update(Desc("a", "0"), [size |-> "99", hashSHA256 |-> "H3"])
GoodDescs == {Desc("a", "0"), Desc("a", "1"), Desc("b", "0"), DescExtra}
DescNoPriority == [name |-> "b", type |-> "text", importType |-> "file", preload |-> "true"]
DescBadPreload == Put(Desc("b", "0"), "preload", "yes")
GoodFilesDocs ==
    {YamlList(<<>>)} \cup {YamlList(<<d>>) : d \in GoodDescs}
        \cup {YamlList(<<d, e>>) : d, e \in GoodDescs}
BadFilesDocs ==
    {YamlNull, YamlList(<<DescNoPriority>>), YamlList(<<Desc("a", "1"), DescNoPriority>>),
     YamlList(<<Desc("a", "1"), DescBadPreload>>)}
FilesInput(doc, dir) == [files_yaml |-> doc, files_path |-> dir.files_path, disk |-> dir.disk]
FilesInputs ==
    {FilesInput(doc, dir) : doc \in GoodFilesDocs \cup BadFilesDocs, dir \in {DirSame, DirSwapped}}
        \cup {FilesInput(YamlList(<<Desc("a", "1"), Desc("b", "0")>>), dir) :
                dir \in {DirNoFileB, DirNoPathB}}

ParamDocs == {YamlNull, YamlScalar,
              YamlList(<<[name |-> "p", value |-> "v"]>>),
              YamlList(<<[name |-> "p", value |-> "v"], [name |-> "q", value |-> "1"]>>),
              YamlList(<<[name |-> "p", value |-> "v"], [value |-> "v"]>>)}
ParamschemaDocs == {YamlNull, YamlScalar,
                    YamlList(<<[name |-> "p", type |-> "string"]>>),
                    YamlList(<<[name |-> "p", type |-> "url"], [name |-> "q", type |-> "object"]>>),
                    YamlList(<<[name |-> "p", type |-> "file"], [name |-> "1", type |-> "file"]>>)}
MetaDocs == {YamlNull, YamlMap(EmptyDict), YamlMap([public |-> "true", title |-> "T"])}
Texts == {"old", "new"}

\* remote snapshots a Task is loaded from
RemoteEntry(name, hash, size) ==
    Put(Entry(Update(Desc(name, "0"),
                     [hashSHA256 |-> hash, size |-> size, lastModified |-> "1000"])),
        "links", Links(name, hash))
Snapshots ==
    {EmptyDict,
     [description |-> "old", script |-> "old", title |-> "T0", public |-> "true",
      files |-> <<RemoteEntry("a", "H1", "10")>>],
     [description |-> "old", param |-> YamlList(<<[name |-> "p", value |-> "v"]>>),
      files |-> <<RemoteEntry("a", "H1", "10"), RemoteEntry("b", "H2", "20")>>]}

(* ------------------------------- state -------------------------------- *)
VARIABLES
    obj,        \* Task.obj
    changed,    \* Task.changed: the keys it maps to True
    dir_files,  \* Task.dir_files: a scratch directory, 0 for None
    remote,     \* the attributes of the task on the server
    net,        \* the requests sent since the load: <<method, name, hash, status>>
    dirs,       \* the scratch directories on the disk
    loaded,     \* the snapshot the Task was loaded from
    wasSet,     \* the patch keys the successful setter calls since load were for
    last,       \* the last call: its name, whether it raised, and what it was given
    ncalls,     \* setter calls made
    npatches,   \* patch_task calls made
    pc,         \* where main() is: [at, i], i the index of the property in its loop
    args        \* the parsed command line and the GOEMON_TOKEN variable

vars == <<obj, changed, dir_files, remote, net, dirs, loaded, wasSet, last, ncalls, npatches,
          pc, args>>
session == <<pc, args>>

\* op: the call; raised: whether it raised; descs, hashes, oldfiles: the descriptors
\* a successful files setter was given, the hash of the local bytes behind each
\* and the fileset held before it; old, oldchanged: obj and changed before a call
\* that raised; text: the value given to the description or script setter;
\* puts: the PUT requests a patch_task call sent; after: the call before it
NoCall == [op |-> "load", raised |-> FALSE, descs |-> <<>>, hashes |-> <<>>,
           oldfiles |-> <<>>, old |-> EmptyDict, oldchanged |-> {}, text |-> "", puts |-> 0,
           after |-> ""]

\* no command line: the Task and V1API are used as a library
NoArgs == [token |-> TRUE, subcommand |-> "", all |-> FALSE, dry_run |-> FALSE,
           dest |-> [p \in Range(PROPERTIES) \cup {"files"} |-> ""]]

\* V1API._get answered with `loaded`, every download succeeding
Init ==
    /\ loaded \in Snapshots
    /\ obj = loaded
    /\ remote = loaded
    /\ changed = {}
    /\ dir_files = IF Len(Get(loaded, "files", <<>>)) = 0 THEN 0 ELSE 1
    /\ dirs = IF Len(Get(loaded, "files", <<>>)) = 0 THEN {} ELSE {1}
    /\ net = <<>>
    /\ wasSet = {}
    /\ last = NoCall
    /\ ncalls = 0
    /\ npatches = 0
    /\ pc = [at |-> "library", i |-> 0]
    /\ args = NoArgs

\* a setter call that returned r
Setter(op, keys, r, text) ==
    /\ ncalls < MaxCalls
    /\ ncalls' = ncalls + 1
    /\ obj' = r.obj
    /\ changed' = r.changed
    /\ wasSet' = IF r.raised THEN wasSet ELSE wasSet \cup keys
    /\ last' = IF r.raised
               THEN [NoCall EXCEPT !.op = op, !.raised = TRUE, !.old = obj,
                                   !.oldchanged = changed]
               ELSE [NoCall EXCEPT !.op = op, !.text = text]
    /\ UNCHANGED <<dir_files, remote, net, dirs, loaded, npatches, session>>

CallDescription ==
    \E value \in Texts : Setter("description", {"description"},
                                SetDescription(obj, changed, value), value)
CallScript ==
    \E value \in {"new"} : Setter("script", {"script"}, SetScript(obj, changed, value), value)
CallParam ==
    \E value \in ParamDocs : Setter("param", {"param"}, SetParam(obj, changed, value), "")
CallParamschema ==
    \E value \in ParamschemaDocs :
        Setter("paramschema", {"paramschema"}, SetParamschema(obj, changed, value), "")
CallMeta ==
    \E value \in MetaDocs : Setter("meta", MetaKeys, SetMeta(obj, changed, value), "")

\* the hash of the local bytes behind each descriptor of a list that was accepted
LocalHashes(descs, files_path, disk) ==
    [i \in DOMAIN descs |-> Sha256(disk[FirstPath(files_path, descs[i]["name"])].bytes)]

CallFilesFrom(inputs) ==
    \E in \in inputs :
        LET r == SetFiles(obj, changed, in.files_yaml, in.files_path, in.disk)
        IN /\ ncalls < MaxCalls
           /\ ncalls' = ncalls + 1
           /\ obj' = r.obj
           /\ changed' = r.changed
           /\ wasSet' = IF r.raised THEN wasSet ELSE wasSet \cup {"files"}
           /\ last' = IF r.raised
                      THEN [NoCall EXCEPT !.op = "files", !.raised = TRUE, !.old = obj,
                                          !.oldchanged = changed,
                                          !.descs = in.files_yaml.items]
                      ELSE [NoCall EXCEPT
                              !.op = "files",
                              !.descs = in.files_yaml.items,
                              !.hashes = LocalHashes(in.files_yaml.items, in.files_path, in.disk),
                              !.oldfiles = Get(obj, "files", <<>>)]
           /\ UNCHANGED <<dir_files, remote, net, dirs, loaded, npatches, session>>

CallFiles == CallFilesFrom(FilesInputs)

\* a Task and the calls of its setters
Next ==
    \/ CallDescription
    \/ CallScript
    \/ CallParam
    \/ CallParamschema
    \/ CallMeta
    \/ CallFiles

Spec == Init /\ [][Next]_vars

(* ------------------- a Task, its fileset and patch_task --------------- *)
Puts(sent) == SelectSeq(sent, LAMBDA r : r[1] = "PUT")

\* api.patch_task(task_id, task); the Task it returns is the caller's
CallPatchTask ==
    \E fault \in Faults :
        LET r == PatchTask(obj, changed, remote, fault)
        IN /\ npatches < MaxPatches
           /\ npatches' = npatches + 1
           /\ remote' = r.remote
           /\ net' = net \o r.sent
           /\ dirs' = IF r.mkdir THEN dirs \cup {npatches + 2} ELSE dirs
           /\ last' = [NoCall EXCEPT !.op = "patch_task", !.raised = r.raised,
                                     !.puts = Len(Puts(r.sent)), !.after = last.op]
           /\ UNCHANGED <<obj, changed, dir_files, loaded, wasSet, ncalls, session>>

\* Task.destroy
Destroy ==
    /\ dir_files # 0
    /\ dirs' = dirs \ {dir_files}
    /\ dir_files' = 0
    /\ last' = [NoCall EXCEPT !.op = "destroy"]
    /\ UNCHANGED <<obj, changed, remote, net, loaded, wasSet, ncalls, npatches, session>>

\* the filesets given in these sessions: one file or two, bytes kept or changed
PatchFilesInputs ==
    {FilesInput(doc, dir) :
        doc \in {YamlList(<<>>), YamlList(<<Desc("a", "0")>>), YamlList(<<Desc("a", "1")>>),
                 YamlList(<<Desc("b", "0")>>), YamlList(<<Desc("a", "0"), Desc("b", "0")>>)},
        dir \in {DirSame, DirSwapped}}
CallFilesToPatch == CallFilesFrom(PatchFilesInputs)

\* a Task whose fileset is set, then patched to the server, then destroyed
NextPatch ==
    \/ CallFilesToPatch
    \/ CallDescription
    \/ CallPatchTask
    \/ Destroy

PatchSpec == Init /\ [][NextPatch]_vars

(* ------------------------------ cli.py -------------------------------- *)
DEFAULT_FILENAMES ==
    [meta |-> "meta.yml", description |-> "description.md", script |-> "script.js",
     param |-> "param.yml", paramschema |-> "paramschema.yml", files |-> "files/"]

\* a command line: dest[p] is "" when the option is not given (None), "-" for
\* stdin/stdout, else a path
Args(token, subcommand, all, dry_run, given, dash) ==
    [token |-> token, subcommand |-> subcommand, all |-> all, dry_run |-> dry_run,
     dest |-> [p \in Range(PROPERTIES) \cup {"files"} |->
                 IF p \in dash THEN "-" ELSE IF p \in given THEN "f" ELSE ""]]
CommandLines ==
    {Args(TRUE, "export", TRUE, FALSE, {}, {}),
     Args(TRUE, "export", TRUE, TRUE, {}, {}),
     Args(TRUE, "export", FALSE, FALSE, {"description", "files"}, {}),
     Args(TRUE, "export", FALSE, FALSE, {"files"}, {"script"}),
     Args(TRUE, "import", TRUE, FALSE, {}, {}),
     Args(TRUE, "import", FALSE, FALSE, {"files"}, {"param"}),
     Args(TRUE, "export", FALSE, FALSE, {}, {}),
     Args(TRUE, "import", FALSE, FALSE, {"files"}, {"description", "script"}),
     Args(TRUE, "push", TRUE, FALSE, {}, {}),
     Args(FALSE, "export", TRUE, FALSE, {}, {})}

\* what the files read for an export hold
ExportValues(prop) ==
    IF prop = "meta" THEN {YamlNull, YamlMap([public |-> "true", title |-> "T"])}
    ELSE IF prop = "param"
    THEN {YamlList(<<[name |-> "p", value |-> "v"]>>),
          YamlList(<<[name |-> "p", value |-> "v"], [value |-> "v"]>>)}
    ELSE IF prop = "paramschema"
    THEN {YamlList(<<[name |-> "p", type |-> "string"]>>),
          YamlList(<<[name |-> "p", type |-> "url"], [name |-> "q", type |-> "object"]>>)}
    ELSE {"new"}
\* .files.yml and the directory it is in
ExportFiles ==
    {[files_yaml |-> doc, disk |-> dir.disk] :
        doc \in {YamlList(<<Desc("a", "1")>>), YamlList(<<Desc("a", "0"), Desc("b", "0")>>),
                 YamlList(<<DescExtra>>), YamlList(<<DescNoPriority>>), YamlNull},
        dir \in {DirSame, DirSwapped, DirNoFileB}}

\* setattr(task, prop, value)
SetAttr(o, ch, prop, value) ==
    IF prop = "meta" THEN SetMeta(o, ch, value)
    ELSE IF prop = "description" THEN SetDescription(o, ch, value)
    ELSE IF prop = "script" THEN SetScript(o, ch, value)
    ELSE IF prop = "param" THEN SetParam(o, ch, value)
    ELSE SetParamschema(o, ch, value)

\* process_files_export, the loop that builds files_path: every descriptor needs
\* a name and a file of that name in src_dir
RECURSIVE ExportFilesPath(_, _, _)
ExportFilesPath(descs, disk, files_path) ==
    IF descs = <<>> THEN [raised |-> FALSE, files_path |-> files_path]
    ELSE LET file == Head(descs)
         IN IF ~Has(file, "name") THEN [raised |-> TRUE, files_path |-> files_path]
            ELSE IF disk[<<SrcDir, file["name"]>>] = NoFile
            THEN [raised |-> TRUE, files_path |-> files_path]
            ELSE ExportFilesPath(Tail(descs), disk,
                                 Append(files_path, <<SrcDir, file["name"]>>))

\* the remote task before the session; no Task yet
InitMain ==
    /\ loaded \in Snapshots
    /\ remote = loaded
    /\ args \in CommandLines
    /\ pc = [at |-> "start", i |-> 0]
    /\ obj = EmptyDict
    /\ changed = {}
    /\ dir_files = 0
    /\ dirs = {}
    /\ net = <<>>
    /\ wasSet = {}
    /\ last = NoCall
    /\ ncalls = 0
    /\ npatches = 0

Raise == pc' = [at |-> "error", i |-> pc.i]
Goto(at) == pc' = [at |-> at, i |-> 0]

\* main, up to task = api.get_task(..): the token, V1API._get, Task.__init__
MainGetTask ==
    /\ pc.at = "start"
    /\ IF ~args.token
       THEN /\ Raise
            /\ UNCHANGED <<obj, changed, dir_files, remote, net, dirs, loaded, wasSet, last,
                           ncalls, npatches, args>>
       ELSE \E fault \in {"none", "fetch", "get1", "get2"} :
              IF fault = "fetch"
              THEN /\ Raise
                   /\ net' = net \o <<<<"GET", "", "", "failed">>>>
                   /\ last' = [NoCall EXCEPT !.op = "get_task", !.raised = TRUE]
                   /\ UNCHANGED <<obj, changed, dir_files, remote, dirs, loaded, wasSet,
                                  ncalls, npatches, args>>
              ELSE LET t == NewTask(remote, fault)
                   IN /\ net' = net \o <<<<"GET", "", "", "ok">>>> \o t.sent
                      /\ dirs' = IF t.mkdir THEN dirs \cup {1} ELSE dirs
                      /\ last' = [NoCall EXCEPT !.op = "get_task", !.raised = t.raised]
                      /\ IF t.raised
                         THEN Raise /\ UNCHANGED <<obj, dir_files>>
                         ELSE /\ Goto("check")
                              /\ obj' = remote
                              /\ dir_files' = IF t.mkdir THEN 1 ELSE 0
                      /\ UNCHANGED <<changed, remote, loaded, wasSet, ncalls, npatches, args>>

\* main, the two checks of the command line
MainCheckArgs ==
    /\ pc.at = "check"
    /\ IF /\ \A prop \in Range(PROPERTIES) : args.dest[prop] = ""
          /\ args.dest["files"] = ""
          /\ ~args.all
       THEN Raise
       ELSE IF Cardinality({prop \in Range(PROPERTIES) : args.dest[prop] = "-"}) > 1
       THEN Raise
       ELSE pc' = [at |-> "props", i |-> 1]
    /\ UNCHANGED <<obj, changed, dir_files, remote, net, dirs, loaded, wasSet, last,
                   ncalls, npatches, args>>

NextProp == pc' = IF pc.i < Len(PROPERTIES) THEN [at |-> "props", i |-> pc.i + 1]
                  ELSE [at |-> "files", i |-> 0]

\* main, one round of the loop over PROPERTIES: process_import / process_export
MainProcessProp ==
    /\ pc.at = "props"
    /\ LET prop == PROPERTIES[pc.i]
           dest == IF args.all /\ args.dest[prop] = "" THEN DEFAULT_FILENAMES[prop]
                   ELSE args.dest[prop]
       IN IF args.subcommand = "import"
          THEN \* the write fails when the file exists and --overwrite is not given
               /\ \E exists \in BOOLEAN :
                    IF dest # "" /\ dest # "-" /\ exists THEN Raise ELSE NextProp
               /\ UNCHANGED <<obj, changed, wasSet, last>>
          ELSE IF args.subcommand = "export"
          THEN IF dest = ""
               THEN NextProp /\ UNCHANGED <<obj, changed, wasSet, last>>
               ELSE \E readable \in BOOLEAN, value \in ExportValues(prop) :
                      \* get_stream(args, src, 'r', sys.stdout): "-" is sys.stdout, and
                      \* its read() raises; a path may not be readable
                      IF dest = "-" \/ ~readable
                      THEN Raise /\ UNCHANGED <<obj, changed, wasSet, last>>
                      ELSE LET r == SetAttr(obj, changed, prop, value)
                           IN /\ obj' = r.obj
                              /\ changed' = r.changed
                              /\ wasSet' = IF r.raised THEN wasSet
                                           ELSE IF prop = "meta" THEN wasSet \cup MetaKeys
                                           ELSE wasSet \cup {prop}
                              /\ last' = IF r.raised
                                         THEN [NoCall EXCEPT !.op = prop, !.raised = TRUE,
                                                 !.old = obj, !.oldchanged = changed]
                                         ELSE [NoCall EXCEPT !.op = prop,
                                                 !.text = IF prop \in {"description", "script"}
                                                          THEN value ELSE ""]
                              /\ IF r.raised THEN Raise ELSE NextProp
          ELSE Raise /\ UNCHANGED <<obj, changed, wasSet, last>>
    /\ UNCHANGED <<dir_files, remote, net, dirs, loaded, ncalls, npatches, args>>

\* main: process_files_import, or process_files_export
MainProcessFiles ==
    /\ pc.at = "files"
    /\ LET given == args.dest["files"] # "" \/ args.all
       IN IF args.subcommand = "import"
          THEN /\ \E exists \in BOOLEAN :
                    IF given /\ exists THEN Raise ELSE Goto("destroy")
               /\ UNCHANGED <<obj, changed, wasSet, last>>
          ELSE IF ~given
          THEN Goto("flush") /\ UNCHANGED <<obj, changed, wasSet, last>>
          ELSE \E readable \in BOOLEAN, in \in ExportFiles :
                 LET paths == IF in.files_yaml.kind # "list"
                              THEN [raised |-> TRUE, files_path |-> <<>>]
                              ELSE ExportFilesPath(in.files_yaml.items, in.disk, <<>>)
                     r == SetFiles(obj, changed, in.files_yaml, paths.files_path, in.disk)
                 IN IF ~readable \/ paths.raised
                    THEN Raise /\ UNCHANGED <<obj, changed, wasSet, last>>
                    ELSE /\ obj' = r.obj
                         /\ changed' = r.changed
                         /\ wasSet' = IF r.raised THEN wasSet ELSE wasSet \cup {"files"}
                         /\ last' =
                              IF r.raised
                              THEN [NoCall EXCEPT !.op = "files", !.raised = TRUE, !.old = obj,
                                      !.oldchanged = changed, !.descs = in.files_yaml.items]
                              ELSE [NoCall EXCEPT
                                      !.op = "files", !.descs = in.files_yaml.items,
                                      !.hashes = LocalHashes(in.files_yaml.items,
                                                             paths.files_path, in.disk),
                                      !.oldfiles = Get(obj, "files", <<>>)]
                         /\ IF r.raised THEN Raise ELSE Goto("flush")
    /\ UNCHANGED <<dir_files, remote, net, dirs, loaded, ncalls, npatches, args>>

\* flush_export; the Task patch_task returns is dropped
MainFlush ==
    /\ pc.at = "flush"
    /\ IF args.dry_run
       THEN /\ Goto("destroy")
            /\ UNCHANGED <<remote, net, dirs, last, npatches>>
       ELSE \E fault \in Faults :
              LET r == PatchTask(obj, changed, remote, fault)
              IN /\ npatches' = npatches + 1
                 /\ remote' = r.remote
                 /\ net' = net \o r.sent
                 /\ dirs' = IF r.mkdir THEN dirs \cup {2} ELSE dirs
                 /\ last' = [NoCall EXCEPT !.op = "patch_task", !.raised = r.raised,
                                           !.puts = Len(Puts(r.sent)), !.after = last.op]
                 /\ IF r.raised THEN Raise ELSE Goto("destroy")
    /\ UNCHANGED <<obj, changed, dir_files, loaded, wasSet, ncalls, args>>

\* main, its last line: task.destroy()
MainDestroy ==
    /\ pc.at = "destroy"
    /\ Goto("done")
    /\ dirs' = IF dir_files # 0 THEN dirs \ {dir_files} ELSE dirs
    /\ dir_files' = 0
    /\ UNCHANGED <<obj, changed, remote, net, loaded, wasSet, last, ncalls, npatches, args>>

NextMain ==
    \/ MainGetTask
    \/ MainCheckArgs
    \/ MainProcessProp
    \/ MainProcessFiles
    \/ MainFlush
    \/ MainDestroy

MainSpec == InitMain /\ [][NextMain]_vars

(* ------------------- claims about the Task's setters ------------------ *)
Files == Get(obj, "files", <<>>)
FileNames(files) == {Attr(files[i])["name"] : i \in DOMAIN files}
FilesSet == last.op = "files" /\ ~last.raised
\* descriptor i of the last files call has a previous entry of its name and hash
Matched(i) ==
    \E j \in DOMAIN last.oldfiles :
        /\ Attr(last.oldfiles[j])["name"] = last.descs[i]["name"]
        /\ Attr(last.oldfiles[j])["hashSHA256"] = last.hashes[i]

\* C1: the patch of serialize_as_task has a top-level key iff a successful setter
\* call since load was for that key (meta: its six sub-keys), with the value the
\* task now holds (the value given, for description and script); a key the
\* snapshot holds but no call set is absent, files_data is never a key
C1_PatchIsExactlyWhatWasSet ==
    LET patch == SerializeAsTask(obj, changed)
    IN /\ DOMAIN patch = wasSet
       /\ \A k \in DOMAIN patch : patch[k] = obj[k]
       /\ \A k \in (DOMAIN loaded) \ wasSet : k \notin DOMAIN patch
       /\ (last.op \in {"description", "script"}) => patch[last.op] = last.text

\* a key was set to the value the snapshot holds, another key of the snapshot was
\* not set, and the files setter has completed
C1_Witness ==
    /\ "description" \in wasSet
    /\ Has(loaded, "description")
    /\ obj["description"] = loaded["description"]
    /\ Has(loaded, "files")
    /\ "files" \notin wasSet
    /\ last.op = "description"

\* C2 (as claimed): after a files-setter call, every descriptor whose name and
\* content hash equal those of a previous entry yields an entry with that
\* entry's links, hashSHA256, size and lastModified and the descriptor's type,
\* importType, preload and priority, and no transfer tuple of its name
C2_MatchedEntryIsReused ==
    FilesSet =>
        \A i \in DOMAIN last.descs :
            Matched(i) =>
                LET prev == OldfilesMatched(last.oldfiles, last.descs[i]["name"],
                                            last.hashes[i])[1]
                    new == Files[i]
                IN /\ Has(new, "links") = Has(prev, "links")
                   /\ Has(new, "links") => new["links"] = prev["links"]
                   /\ \A k \in {"hashSHA256", "size", "lastModified"} :
                        Attr(new)[k] = Attr(prev)[k]
                   /\ \A k \in {"type", "importType", "preload", "priority"} :
                        Attr(new)[k] = last.descs[i][k]
                   /\ \A t \in DOMAIN GetDataFiles(obj) :
                        GetDataFiles(obj)[t][1] # last.descs[i]["name"]

\* the transfer tuples the claim C3 expects: one per unmatched descriptor, in order
RECURSIVE ExpectedTransfers(_)
ExpectedTransfers(i) ==
    IF i > Len(last.descs) THEN <<>>
    ELSE IF Matched(i) THEN ExpectedTransfers(i + 1)
    ELSE <<<<last.descs[i]["name"], last.hashes[i], <<SrcDir, last.descs[i]["name"]>>>>>>
            \o ExpectedTransfers(i + 1)

\* C3 (as claimed): a descriptor gets a transfer tuple (name, hash, localPath)
\* iff no previous entry has both its name and its hash, exactly one, and its
\* entry is newly minted: the hash of the local bytes, no links
C3_UnmatchedIsMintedAndTransferred ==
    FilesSet =>
        /\ GetDataFiles(obj) = ExpectedTransfers(1)
        /\ \A i \in DOMAIN last.descs :
            ~Matched(i) =>
                /\ ~Has(Files[i], "links")
                /\ Attr(Files[i])["hashSHA256"] = last.hashes[i]

\* C7: a param, paramschema or files setter call that raised left obj (the field
\* values, the fileset, the pending transfers) and changed as they were
C7_FailedSetterChangesNothing ==
    (last.raised /\ last.op \in {"param", "paramschema", "files"}) =>
        /\ obj = last.old
        /\ changed = last.oldchanged

\* the files setter raised on the second descriptor of a list whose first is
\* valid, while transfers were pending
C7_Witness ==
    /\ last.raised
    /\ last.op = "files"
    /\ Len(last.descs) = 2
    /\ ValidateFile(last.descs[1])
    /\ ~ValidateFile(last.descs[2])
    /\ Len(GetDataFiles(obj)) > 0
    /\ changed # {}

\* C8: after a successful files-setter call the fileset has one entry per
\* descriptor, in order, with the descriptor's name; no previous entry whose
\* name is not among the descriptors remains
C8_FilesetIsTheDescriptors ==
    FilesSet =>
        /\ Len(Files) = Len(last.descs)
        /\ \A i \in DOMAIN last.descs : Attr(Files[i])["name"] = last.descs[i]["name"]
        /\ \A j \in DOMAIN last.oldfiles :
            Attr(last.oldfiles[j])["name"] \notin {last.descs[i]["name"] : i \in DOMAIN last.descs}
                => Attr(last.oldfiles[j])["name"] \notin FileNames(Files)

\* an entry with links and an entry without were both dropped by omission
C8_Witness ==
    /\ FilesSet
    /\ \E j, k \in DOMAIN last.oldfiles :
        /\ Has(last.oldfiles[j], "links")
        /\ ~Has(last.oldfiles[k], "links")
        /\ Attr(last.oldfiles[j])["name"] \notin FileNames(Files)
        /\ Attr(last.oldfiles[k])["name"] \notin FileNames(Files)

\* C9 (as claimed): no two entries of the held fileset have the same name, and
\* a descriptor list that names a file twice is rejected, the task left as it was
C9_NamesAreUnique ==
    /\ \A i, j \in DOMAIN Files : i # j => Attr(Files[i])["name"] # Attr(Files[j])["name"]
    /\ (/\ last.op = "files"
        /\ \E i, j \in DOMAIN last.descs :
             /\ i # j
             /\ Has(last.descs[i], "name") /\ Has(last.descs[j], "name")
             /\ last.descs[i]["name"] = last.descs[j]["name"])
       => (last.raised /\ obj = last.old)

(* ------------------------ claims about patch_task --------------------- *)
Pairs(files) == {<<Attr(files[i])["name"], Attr(files[i])["hashSHA256"]>> : i \in DOMAIN files}
PutCount(name, hash) ==
    Len(SelectSeq(net, LAMBDA r : r[1] = "PUT" /\ r[2] = name /\ r[3] = hash))

\* C4 (as claimed): after one or more files-setter calls and a patch_task that
\* returned, every entry of the patched fileset whose (name, hash) is not in the
\* loaded snapshot was PUT exactly once, and every entry whose (name, hash) is in
\* the loaded snapshot was not PUT
C4_ChangedBytesUploadedOnce ==
    (last.op = "patch_task" /\ ~last.raised /\ npatches = 1 /\ "files" \in wasSet) =>
        \A i \in DOMAIN Files :
            LET name == Attr(Files[i])["name"]
                hash == Attr(Files[i])["hashSHA256"]
            IN IF <<name, hash>> \in Pairs(Get(loaded, "files", <<>>))
               THEN PutCount(name, hash) = 0
               ELSE PutCount(name, hash) = 1

\* C10 (as claimed): patch_task takes the pending transfers and clears them, so
\* the Task holds none after a patch_task that returned, and a patch_task that
\* follows a patch_task PUTs nothing
C10_TransfersConsumedOnce ==
    /\ (last.op = "patch_task" /\ ~last.raised) => GetDataFiles(obj) = <<>>
    /\ (last.op = "patch_task" /\ last.after = "patch_task") => last.puts = 0

(* ------------------------ claims about a session ---------------------- *)
Ended == pc.at \in {"done", "error"}
\* the session got its Task: api.get_task returned
Fetched == args.token /\ last.op # "load" /\ ~(last.op = "get_task" /\ last.raised)
Uploaded(name, hash) == \E k \in DOMAIN net : net[k] = <<"PUT", name, hash, "ok">>

\* C5 (as claimed): when an export session has ended, either the remote task is
\* as it was before the session, or the PATCH was applied and every pending
\* transfer was uploaded; a patch_task that raised before its last upload was
\* done left the remote task as it was
C5_NoPartialSuccess ==
    (Ended /\ args.subcommand = "export") =>
        \/ remote = loaded
        \/ \A t \in DOMAIN GetDataFiles(obj) :
             Uploaded(GetDataFiles(obj)[t][1], GetDataFiles(obj)[t][2])

\* C6 (as claimed): when main has ended, normally or by an error raised after
\* the task was fetched, no scratch directory made during the session is left
C6_ScratchReleased ==
    (Ended /\ Fetched) => dirs = {}

\* the command line has a configuration error: no credential, or no field, files
\* option or --all given, or "-" given for more than one field
NoCredential == ~args.token
NothingGiven ==
    /\ \A prop \in Range(PROPERTIES) \cup {"files"} : args.dest[prop] = ""
    /\ ~args.all
DashTwice == Cardinality({prop \in Range(PROPERTIES) : args.dest[prop] = "-"}) > 1
ConfigurationError == NoCredential \/ NothingGiven \/ DashTwice

\* C11 (as claimed): in a session started with a missing credential or with
\* conflicting command-line inputs, no network request is ever sent, no scratch
\* directory is ever made, and the session never gets past its start other than
\* by ending in an error
C11_ConfigErrorsBeforeAnyIO ==
    ConfigurationError =>
        /\ net = <<>>
        /\ dirs = {}
        /\ pc.at \in {"start", "error"}

====
